---------------------------- MODULE Spec2Model ----------------------------
(***************************************************************************)
(* Model of javascript/node/selenium-webdriver/firefox/extension.js:       *)
(* install(extension, dir) and the getDetails pipeline behind it.          *)
(*                                                                         *)
(* Text is modelled as it is used by the code:                             *)
(*   - paths, ids and element text are sequences of one-character strings, *)
(*     so that slice(-4), toLowerCase() and string concatenation are       *)
(*     computed rather than assumed;                                       *)
(*   - XML names (element and attribute names) are sequences of tokens in  *)
(*     which ":" is a token of its own, so that indexOf(':') and           *)
(*     split(':')[1] are computed.                                         *)
(* A JavaScript value that may be undefined is a sequence of length 0 or 1.*)
(***************************************************************************)
EXTENDS Naturals, Sequences, FiniteSets

VARIABLES
    input,    \* per call: the arguments of install and what the collaborators hold
    pc,       \* per call: the asynchronous step the call is waiting on
    ns,       \* per call: the locals em / rdf of parseInstallRdf (lines 101-103)
    json,     \* per call: the value JSON.parse produced (lines 188, 210)
    details,  \* per call: the AddonDetails the getDetails promise resolved with
    result,   \* per call: the state of the promise install returned
    ops       \* per call: the collaborator and parser calls made so far, in order

vars == <<input, pc, ns, json, details, result, ops>>

---------------------------------------------------------------------------
(* Bounds *)

NCalls == 2      \* install calls in flight in the concurrent specification
MaxAttrs == 2    \* attributes on the root element of a manifest
MaxKids == 2     \* repeated <em:unpack> children of the description node

---------------------------------------------------------------------------
(* Strings *)

Min(a, b) == IF a < b THEN a ELSE b

\* String.prototype.slice(-4): the last four characters (all, if fewer).
SliceLast4(s) == SubSeq(s, Len(s) - Min(Len(s), 4) + 1, Len(s))

XpiSuffix == <<".", "x", "p", "i">>

\* extension.slice(-4) === '.xpi'  (lines 55 and 87)
HasXpiSuffix(p) == SliceLast4(p) = XpiSuffix

LowerChar(ch) ==
    CASE ch = "T" -> "t"
      [] ch = "R" -> "r"
      [] ch = "U" -> "u"
      [] ch = "E" -> "e"
      [] ch = "F" -> "f"
      [] ch = "A" -> "a"
      [] ch = "L" -> "l"
      [] ch = "S" -> "s"
      [] OTHER -> ch

\* String.prototype.toLowerCase()
toLowerCase(s) == [i \in 1..Len(s) |-> LowerChar(s[i])]

\* path.join(a, b) for a relative single-segment b
PathJoin(a, b) == a \o <<"/">> \o b

InstallRdfName == <<"i", "n", "s", "t", "a", "l", "l", ".", "r", "d", "f">>
ManifestJsonName == <<"m", "a", "n", "i", "f", "e", "s", "t", ".", "j", "s", "o", "n">>

EmUri == "http://www.mozilla.org/2004/em-rdf#"
RdfUri == "http://www.w3.org/1999/02/22-rdf-syntax-ns#"

---------------------------------------------------------------------------
(* Errors: name is the error's constructor name, path the path its message *)
(* carries (empty when the message names no path).                         *)

Err(name, msg, path) == [name |-> name, msg |-> msg, path |-> path]

\* class AddonFormatError extends Error
AddonFormatError(msg, path) == Err("AddonFormatError", msg, path)

\* what the engine throws for `undefined[...]`
TypeError == Err("TypeError", "Cannot read property of undefined", <<>>)

\* what JSON.parse throws
SyntaxError == Err("SyntaxError", "Unexpected token", <<>>)

\* what xml2js hands to the parseString callback
XmlError == Err("Error", "Non-whitespace before first tag", <<>>)

\* what a collaborator (io.stat, io.read, zip.load, io.copy, ...) rejects with
IoError(op, path) == Err("Error", op, path)

---------------------------------------------------------------------------
(* JavaScript values *)

\* The outcome of running a handler: it returns a value or throws.
Return(v) == [ok |-> TRUE, val |-> v, err |-> Err("", "", <<>>)]
Throw(e) == [ok |-> FALSE, val |-> <<>>, err |-> e]

\* obj[name] for an object given as the ordered list of its own properties
\* [name, value]: <<>> when the property is undefined, else <<value>>.
RECURSIVE PropFrom(_, _, _)
PropFrom(obj, name, i) ==
    IF i > Len(obj) THEN <<>>
    ELSE IF obj[i].name = name THEN <<obj[i].value>>
    ELSE PropFrom(obj, name, i + 1)

Prop(obj, name) == PropFrom(obj, name, 1)

\* String.prototype.indexOf(t), 1-based; 0 stands for JavaScript's -1.
RECURSIVE IndexFrom(_, _, _)
IndexFrom(s, t, i) ==
    IF i > Len(s) THEN 0
    ELSE IF s[i] = t THEN i
    ELSE IndexFrom(s, t, i + 1)

IndexOf(s, t) == IndexFrom(s, t, 1)

\* s.split(':')[1], for an s that contains ':'
SplitSecond(s) ==
    LET i == IndexOf(s, ":")
        rest == SubSeq(s, i + 1, Len(s))
        j == IndexOf(rest, ":")
    IN  IF j = 0 THEN rest ELSE SubSeq(rest, 1, j - 1)

---------------------------------------------------------------------------
(* parseInstallRdf and its helpers (lines 99-160).                         *)
(* A parsed document is the ordered list of its top-level keys             *)
(* [name, value]; the value is a node [attrs, kids], attrs being the `$`   *)
(* attribute map in attribute order and kids the child elements by name,   *)
(* each an array.                                                          *)

\* The Object.keys(namespaces).some(...) loop of lines 147-158, from index i
\* on: the first attribute whose value is url decides, and ends the loop.
RECURSIVE SomeNamespace(_, _, _)
SomeNamespace(namespaces, url, i) ==
    IF i > Len(namespaces) THEN <<>>
    ELSE IF namespaces[i].value # url THEN SomeNamespace(namespaces, url, i + 1)
    ELSE IF IndexOf(namespaces[i].name, ":") # 0
         THEN SplitSecond(namespaces[i].name) \o <<":">>
         ELSE <<>>

\* A loop that does not stop at the first match: the last declaration wins.
RECURSIVE EveryNamespace(_, _, _, _)
EveryNamespace(namespaces, url, i, id) ==
    IF i > Len(namespaces) THEN id
    ELSE IF namespaces[i].value # url THEN EveryNamespace(namespaces, url, i + 1, id)
    ELSE IF IndexOf(namespaces[i].name, ":") # 0
         THEN EveryNamespace(namespaces, url, i + 1,
                             SplitSecond(namespaces[i].name) \o <<":">>)
         ELSE EveryNamespace(namespaces, url, i + 1, <<>>)

getNamespaceId_lastWins(doc, url, addonPath) ==
    IF Len(doc) # 1
    THEN Throw(AddonFormatError("Malformed manifest for add-on", addonPath))
    ELSE Return(EveryNamespace(doc[1].value.attrs, url, 1, <<>>))

\* getNamespaceId(doc, url), lines 140-159
getNamespaceId(doc, url, addonPath) ==
    IF Len(doc) # 1
    THEN Throw(AddonFormatError("Malformed manifest for add-on", addonPath))
    ELSE Return(SomeNamespace(doc[1].value.attrs, url, 1))

\* getNodeText(node, name), lines 136-138: node[name] && node[name][0] || ''
getNodeText(node, name) ==
    LET arr == Prop(node.kids, name)
    IN  IF arr = <<>> THEN <<>>
        ELSE IF Len(arr[1]) = 0 THEN <<>>
        ELSE arr[1][1]

\* Truthiness of the text instead of its comparison with 'true'.
unpackFlag_truthy(text) == text # <<>>

\* Lines 110-115: getNodeText(...) || false, then, for a string,
\* toLowerCase() === 'true'.
unpackFlag(text) ==
    IF text = <<>> THEN FALSE
    ELSE toLowerCase(text) = <<"t", "r", "u", "e">>

\* An id check that lets the empty id through.
idMissing_never(id) == FALSE

\* !details.id (line 117) and !(... applications.gecko.id) (line 172)
idMissing(id) == id = <<>>

\* The handler of parseXml(rdf).then(...), lines 100-122.  The result also
\* carries the locals em and rdf (undefined, <<>>, when getNamespaceId threw).
parseInstallRdf(doc, addonPath) ==
    LET emR == getNamespaceId(doc, EmUri, addonPath)
        rdfR == getNamespaceId(doc, RdfUri, addonPath)
    IN  IF ~emR.ok THEN [out |-> Throw(emR.err), em |-> <<>>, rdf |-> <<>>]
        ELSE IF ~rdfR.ok THEN [out |-> Throw(rdfR.err), em |-> <<emR.val>>, rdf |-> <<>>]
        ELSE
        LET em == emR.val
            rdf == rdfR.val
            locals(o) == [out |-> o, em |-> <<em>>, rdf |-> <<rdf>>]
            root == Prop(doc, rdf \o <<"RDF">>)
        IN  IF root = <<>> THEN locals(Throw(TypeError))
            ELSE
            LET descs == Prop(root[1].kids, rdf \o <<"Description">>)
            IN  IF descs = <<>> THEN locals(Throw(TypeError))
                ELSE
                LET description == descs[1][1]
                    d == [id |-> getNodeText(description, em \o <<"id">>),
                          name |-> getNodeText(description, em \o <<"name">>),
                          version |-> getNodeText(description, em \o <<"version">>),
                          unpack |-> unpackFlag(getNodeText(description, em \o <<"unpack">>))]
                IN  IF idMissing(d.id)
                    THEN locals(Throw(AddonFormatError("Could not find add-on ID for", addonPath)))
                    ELSE locals(Return(d))

---------------------------------------------------------------------------
(* parseManifestJson (lines 171-177).  A JSON value is [isNull, name,      *)
(* version, applications]; applications, gecko and id are each undefined   *)
(* (<<>>) or present (<<v>>).                                              *)

geckoId(value) ==
    IF value.applications = <<>> THEN <<>>
    ELSE IF value.applications[1].gecko = <<>> THEN <<>>
    ELSE IF value.applications[1].gecko[1].id = <<>> THEN <<>>
    ELSE value.applications[1].gecko[1].id[1]

parseManifestJson(value, addonPath) ==
    IF value.isNull THEN Throw(TypeError)      \* destructuring null
    ELSE IF idMissing(geckoId(value))
    THEN Throw(AddonFormatError("Could not find add-on ID for", addonPath))
    ELSE Return([id |-> geckoId(value), name |-> value.name,
                 version |-> value.version, unpack |-> FALSE])

---------------------------------------------------------------------------
(* The inputs of a call: the arguments of install and what the filesystem  *)
(* and archive collaborators answer for the source path.                   *)

PathA == <<"a", ".", "x", "p", "i">>
PathB == <<"b", ".", "x", "p", "i">>
PathC == <<"c">>
Paths == {PathA, PathB, PathC}

DirP == <<"p">>
DirQ == <<"q">>

IdA == <<"i", "d", "A">>
IdB == <<"i", "d", "B">>
NameText == <<"n">>
VersionText == <<"1">>

TrueLower == <<"t", "r", "u", "e">>
TrueUpper == <<"T", "R", "U", "E">>
TrueMixed == <<"T", "r", "u", "e">>
FalseLower == <<"f", "a", "l", "s", "e">>
UnpackTexts == {TrueLower, TrueUpper, TrueMixed, FalseLower}

\* All sequences over S of length at most n.
RECURSIVE SeqsUpTo(_, _)
SeqsUpTo(S, n) ==
    IF n = 0 THEN {<<>>}
    ELSE LET shorter == SeqsUpTo(S, n - 1)
         IN  shorter \cup {Append(q, x) : q \in shorter, x \in S}

XmlnsDefault == <<"xmlns">>
XmlnsEm == <<"xmlns", ":", "em">>
XmlnsRdf == <<"xmlns", ":", "rdf">>
Attr(n, v) == [name |-> n, value |-> v]
AttrSet == {Attr(n, v) : n \in {XmlnsDefault, XmlnsEm, XmlnsRdf}, v \in {EmUri, RdfUri}}

\* Attribute lists: an element carries no attribute name twice.
AttrLists ==
    {a \in SeqsUpTo(AttrSet, MaxAttrs) :
        \A i, j \in 1..Len(a) : a[i].name = a[j].name => i = j}

NoPrefix == <<>>
EmPrefix == <<"em", ":">>
RdfPrefix == <<"rdf", ":">>

\* The declarations a manifest written with element prefixes rp (for RDF and
\* Description) and fp (for id, name, version, unpack) carries.
DeclFor(prefix, uri) ==
    IF prefix = NoPrefix THEN Attr(XmlnsDefault, uri)
    ELSE Attr(<<"xmlns", ":", prefix[1]>>, uri)

\* A description node whose id child is idOpt (<<>>: no child) and whose
\* unpack children are unpacks, all under the field prefix fp.
Description(fp, idOpt, unpacks) ==
    [attrs |-> <<>>,
     kids |-> (IF idOpt = <<>> THEN <<>> ELSE <<[name |-> fp \o <<"id">>, value |-> idOpt]>>)
              \o <<[name |-> fp \o <<"name">>, value |-> <<NameText>>],
                   [name |-> fp \o <<"version">>, value |-> <<VersionText>>]>>
              \o (IF unpacks = <<>> THEN <<>> ELSE <<[name |-> fp \o <<"unpack">>, value |-> unpacks]>>)]

\* A document with the single root element <rp>RDF carrying attrs, holding
\* the description nodes descs under <rp>Description (none when descs = <<>>).
RdfDoc(attrs, rp, descs) ==
    <<[name |-> rp \o <<"RDF">>,
       value |-> [attrs |-> attrs,
                  kids |-> IF descs = <<>> THEN <<>>
                           ELSE <<[name |-> rp \o <<"Description">>, value |-> descs]>>]]>>

IdOpts == {<<>>, <<<<>>>>, <<IdA>>, <<IdB>>}
UnpackLists == SeqsUpTo(UnpackTexts, MaxKids)

\* Documents that vary the namespace declarations of the root element.
NamespaceDocs ==
    {RdfDoc(a, rp, descs) :
        a \in AttrLists, rp \in {NoPrefix, RdfPrefix},
        descs \in {<<>>} \cup {<<Description(fp, <<IdA>>, <<>>)>> : fp \in {NoPrefix, EmPrefix}}}

\* Documents that declare the prefixes they use and vary the fields.
FieldDocs ==
    {RdfDoc(<<DeclFor(rp, RdfUri), DeclFor(fp, EmUri)>>, rp, <<Description(fp, i, u)>>) :
        rp \in {NoPrefix, RdfPrefix}, fp \in {EmPrefix}, i \in IdOpts, u \in UnpackLists}

\* Documents whose top level does not hold exactly one key.
RootCountDocs ==
    {<<>>,
     RdfDoc(<<>>, NoPrefix, <<>>) \o RdfDoc(<<>>, RdfPrefix, <<>>)}

Docs == NamespaceDocs \cup FieldDocs \cup RootCountDocs

\* The bytes of install.rdf: text xml2js cannot parse, or the text of a document.
XmlBufs == {[wellFormed |-> FALSE, doc |-> <<>>]} \cup {[wellFormed |-> TRUE, doc |-> d] : d \in Docs}

JsonValue(isNull, apps) ==
    [isNull |-> isNull, name |-> NameText, version |-> VersionText, applications |-> apps]

JsonValues ==
    {JsonValue(TRUE, <<>>),
     JsonValue(FALSE, <<>>),
     JsonValue(FALSE, <<[gecko |-> <<>>]>>)}
    \cup {JsonValue(FALSE, <<[gecko |-> <<[id |-> i]>>]>>) : i \in IdOpts}

\* The bytes of manifest.json: text JSON.parse rejects, or the text of a value.
JsonBufs == {[valid |-> FALSE, value |-> JsonValue(TRUE, <<>>)]}
            \cup {[valid |-> TRUE, value |-> v] : v \in JsonValues}

NoXml == [wellFormed |-> FALSE, doc |-> <<>>]
NoJson == [valid |-> FALSE, value |-> JsonValue(TRUE, <<>>)]

\* fail names the collaborator call that rejects ("none": all succeed).
Input(ext, dir, kind, hasRdf, hasJson, rdf, js, fail) ==
    [extension |-> ext, dir |-> dir, kind |-> kind, hasRdf |-> hasRdf,
     hasJson |-> hasJson, rdf |-> rdf, json |-> js, fail |-> fail]

Kinds == {"dir", "file"}

\* Sources that getDetails can open: a directory, or a file named *.xpi.
Openable == {pk \in Paths \X Kinds : pk[2] = "dir" \/ HasXpiSuffix(pk[1])}

Inputs ==
    \* io.stat rejects
    {Input(p, DirP, "file", FALSE, FALSE, NoXml, NoJson, "stat") : p \in Paths}
    \* a file that is not named *.xpi
    \cup {Input(pk[1], DirP, pk[2], FALSE, FALSE, NoXml, NoJson, "none") :
            pk \in (Paths \X Kinds) \ Openable}
    \* zip.load rejects
    \cup {Input(pk[1], DirP, pk[2], TRUE, FALSE, NoXml, NoJson, "load") :
            pk \in {x \in Openable : x[2] = "file"}}
    \* neither manifest is there
    \cup {Input(pk[1], DirP, pk[2], FALSE, FALSE, NoXml, NoJson, "none") : pk \in Openable}
    \* reading the manifest rejects
    \cup {Input(pk[1], DirP, pk[2], hr, ~hr, NoXml, NoJson, "read") :
            pk \in Openable, hr \in BOOLEAN}
    \* install.rdf is there (with or without manifest.json)
    \cup {Input(pk[1], DirP, pk[2], TRUE, hj, x, IF hj THEN j ELSE NoJson, f) :
            pk \in Openable, hj \in BOOLEAN, x \in XmlBufs,
            j \in {[valid |-> TRUE, value |-> JsonValue(FALSE, <<[gecko |-> <<[id |-> <<IdB>>]>>]>>)]},
            f \in {"none", "action"}}
    \* only manifest.json is there
    \cup {Input(pk[1], DirP, pk[2], FALSE, TRUE, NoXml, j, f) :
            pk \in Openable, j \in JsonBufs, f \in {"none", "action"}}

\* A well-formed legacy manifest with the usual declarations.
PlainRdf(idOpt, unpacks) ==
    [wellFormed |-> TRUE,
     doc |-> RdfDoc(<<DeclFor(NoPrefix, RdfUri), DeclFor(EmPrefix, EmUri)>>, NoPrefix,
                    <<Description(EmPrefix, idOpt, unpacks)>>)]

\* A well-formed modern manifest.
PlainJson(idOpt) ==
    [valid |-> TRUE, value |-> JsonValue(FALSE, <<[gecko |-> <<[id |-> idOpt]>>]>>)]

\* The inputs of the concurrent specification: sources of every kind and
\* manifest format, with and without an id, in two destination directories.
ConcInputs ==
    {Input(PathA, DirP, "file", TRUE, FALSE, PlainRdf(i, <<>>), NoJson, "none") :
        i \in {<<>>, <<IdA>>}}
    \cup {Input(PathA, DirP, "file", TRUE, FALSE, PlainRdf(<<IdA>>, <<TrueLower>>), NoJson, "none")}
    \cup {Input(PathC, DirP, "dir", TRUE, FALSE, PlainRdf(<<IdA>>, <<>>), NoJson, "none")}
    \cup {Input(PathB, DirQ, "file", FALSE, TRUE, NoXml, PlainJson(<<IdB>>), f) :
        f \in {"none", "action"}}
    \cup {Input(PathC, DirQ, "dir", FALSE, TRUE, NoXml, PlainJson(i), "none") :
        i \in {<<>>, <<IdB>>}}
    \cup {Input(PathC, DirP, "dir", FALSE, FALSE, NoXml, NoJson, "none")}

---------------------------------------------------------------------------
(* State *)

Calls == DOMAIN input

Op(op, src, dst) == [op |-> op, src |-> src, dst |-> dst]

Pending == [state |-> "pending", id |-> <<>>, err |-> Err("", "", <<>>)]
Resolved(id) == [state |-> "resolved", id |-> id, err |-> Err("", "", <<>>)]
Rejected(e) == [state |-> "rejected", id |-> <<>>, err |-> e]

\* One shared path for every call: the path of the call made last.
addonPath_shared(c) ==
    input[CHOOSE d \in DOMAIN input : \A e \in DOMAIN input : d >= e].extension

\* addonPath, the parameter of getDetails that its inner functions close
\* over (line 83): each call has its own.
addonPath(c) == input[c].extension

\* path.join(dirPath, 'install.rdf') and path.join(dirPath, 'manifest.json')
rdfPath(c) == PathJoin(addonPath(c), InstallRdfName)
jsonPath(c) == PathJoin(addonPath(c), ManifestJsonName)

\* A plain Error where the AddonFormatError belongs.
notFound_plainError(where) ==
    Err("Error", "Couldn't find install.rdf or manifest.json in", where)

\* lines 192-193 and 213-214
notFound(where) ==
    AddonFormatError("Couldn't find install.rdf or manifest.json in", where)

\* manifest.json looked for first.
archiveManifest_jsonFirst(hasRdf, hasJson) ==
    IF hasJson THEN "json" ELSE IF hasRdf THEN "rdf" ELSE "none"

\* The order of the archive.has tests of parseXpiFile, lines 181-193.
archiveManifest(hasRdf, hasJson) ==
    IF hasRdf THEN "rdf" ELSE IF hasJson THEN "json" ELSE "none"

\* The unpack test inverted.
installAction_inverted(extension, dir, d) ==
    LET dst == PathJoin(dir, d.id)
    IN  IF HasXpiSuffix(extension)
        THEN IF d.unpack THEN Op("copy", extension, dst \o XpiSuffix)
             ELSE Op("unzip", extension, dst)
        ELSE Op("copyDir", extension, dst)

\* The decision of install's handler, lines 54-63.
installAction(extension, dir, d) ==
    LET dst == PathJoin(dir, d.id)
    IN  IF HasXpiSuffix(extension)
        THEN IF ~d.unpack THEN Op("copy", extension, dst \o XpiSuffix)
             ELSE Op("unzip", extension, dst)
        ELSE Op("copyDir", extension, dst)

\* The failure of the action swallowed.
settle_swallow(failed, id, e) == Resolved(id)

\* <action>.then(() => details.id), lines 57, 59, 62: the id once the action
\* has succeeded, the action's own error when it has failed.
settle(failed, id, e) == IF failed THEN Rejected(e) ELSE Resolved(id)

Log(c, entries) == ops' = [ops EXCEPT ![c] = @ \o entries]
Goto(c, where) == pc' = [pc EXCEPT ![c] = where]
Reject(c, e) ==
    /\ result' = [result EXCEPT ![c] = Rejected(e)]
    /\ pc' = [pc EXCEPT ![c] = "done"]

InitWith(callIds, inputs) ==
    /\ input \in [callIds -> inputs]
    /\ pc = [c \in callIds |-> "new"]
    /\ ns = [c \in callIds |-> [em |-> <<>>, rdf |-> <<>>]]
    /\ json = [c \in callIds |-> <<>>]
    /\ details = [c \in callIds |-> <<>>]
    /\ result = [c \in callIds |-> Pending]
    /\ ops = [c \in callIds |-> <<>>]

Init == InitWith({1}, Inputs)

InitConc == InitWith(1..NCalls, ConcInputs)

---------------------------------------------------------------------------
(* Actions: one per asynchronous step *)

\* install(extension, dir) is called: getDetails starts io.stat (lines 53, 84).
Install(c) ==
    /\ pc[c] = "new"
    /\ Log(c, <<Op("stat", addonPath(c), <<>>)>>)
    /\ Goto(c, "stat")
    /\ UNCHANGED <<input, ns, json, details, result>>

\* io.stat settles: the handler of lines 84-92.
Stat(c) ==
    /\ pc[c] = "stat"
    /\ IF input[c].fail = "stat"
       THEN Reject(c, IoError("stat", addonPath(c))) /\ UNCHANGED ops
       ELSE IF input[c].kind = "dir"
       THEN /\ Log(c, <<Op("exists", rdfPath(c), <<>>)>>)
            /\ Goto(c, "existsRdf")
            /\ UNCHANGED result
       ELSE IF HasXpiSuffix(addonPath(c))
       THEN /\ Log(c, <<Op("load", addonPath(c), <<>>)>>)
            /\ Goto(c, "zipLoad")
            /\ UNCHANGED result
       ELSE /\ Reject(c, Err("Error", "Add-on path is not an xpi or a directory", addonPath(c)))
            /\ UNCHANGED ops
    /\ UNCHANGED <<input, ns, json, details>>

\* io.exists(rdfPath) settles: the handler of lines 201-206.
ExistsRdf(c) ==
    /\ pc[c] = "existsRdf"
    /\ IF input[c].hasRdf
       THEN Log(c, <<Op("read", rdfPath(c), <<>>)>>) /\ Goto(c, "readRdf")
       ELSE Log(c, <<Op("exists", jsonPath(c), <<>>)>>) /\ Goto(c, "existsJson")
    /\ UNCHANGED <<input, ns, json, details, result>>

\* io.exists(jsonPath) settles: the handler of lines 207-215.
ExistsJson(c) ==
    /\ pc[c] = "existsJson"
    /\ IF input[c].hasJson
       THEN Log(c, <<Op("read", jsonPath(c), <<>>)>>) /\ Goto(c, "readJson") /\ UNCHANGED result
       ELSE Reject(c, notFound(addonPath(c))) /\ UNCHANGED ops
    /\ UNCHANGED <<input, ns, json, details>>

\* zip.load settles: the handler of lines 180-194.
ZipLoad(c) ==
    /\ pc[c] = "zipLoad"
    /\ IF input[c].fail = "load"
       THEN Reject(c, IoError("load", addonPath(c))) /\ UNCHANGED ops
       ELSE LET m == archiveManifest(input[c].hasRdf, input[c].hasJson)
            IN  CASE m = "rdf" ->
                       /\ Log(c, <<Op("getFile", InstallRdfName, <<>>)>>)
                       /\ Goto(c, "getFileRdf")
                       /\ UNCHANGED result
                  [] m = "json" ->
                       /\ Log(c, <<Op("getFile", ManifestJsonName, <<>>)>>)
                       /\ Goto(c, "getFileJson")
                       /\ UNCHANGED result
                  [] OTHER ->
                       /\ Reject(c, notFound(addonPath(c)))
                       /\ UNCHANGED ops
    /\ UNCHANGED <<input, ns, json, details>>

\* The handler of a settled read of install.rdf: parseInstallRdf is called
\* and hands the text to xml.parseString (lines 100, 124-134).
RdfRead(c, at) ==
    /\ pc[c] = at
    /\ IF input[c].fail = "read"
       THEN Reject(c, IoError("read", addonPath(c))) /\ UNCHANGED ops
       ELSE /\ Log(c, <<Op("parseInstallRdf", <<>>, <<>>)>>)
            /\ Goto(c, "parseXml")
            /\ UNCHANGED result
    /\ UNCHANGED <<input, ns, json, details>>

\* io.read(rdfPath) settles (lines 203-204).
ReadRdf(c) == RdfRead(c, "readRdf")

\* archive.getFile('install.rdf') settles (lines 182-183).
GetFileRdf(c) == RdfRead(c, "getFileRdf")

\* xml.parseString calls back: lines 126-132, then the handler of lines 100-122.
ParseXml(c) ==
    /\ pc[c] = "parseXml"
    /\ IF ~input[c].rdf.wellFormed
       THEN Reject(c, XmlError) /\ UNCHANGED <<ns, details>>
       ELSE LET r == parseInstallRdf(input[c].rdf.doc, addonPath(c))
            IN  /\ ns' = [ns EXCEPT ![c] = [em |-> r.em, rdf |-> r.rdf]]
                /\ IF r.out.ok
                   THEN /\ details' = [details EXCEPT ![c] = <<r.out.val>>]
                        /\ Goto(c, "details")
                        /\ UNCHANGED result
                   ELSE Reject(c, r.out.err) /\ UNCHANGED details
    /\ UNCHANGED <<input, json, ops>>

\* The handler of a settled read of manifest.json: JSON.parse (lines 188, 210).
JsonRead(c, at) ==
    /\ pc[c] = at
    /\ IF input[c].fail = "read"
       THEN Reject(c, IoError("read", addonPath(c))) /\ UNCHANGED json
       ELSE IF ~input[c].json.valid
       THEN Reject(c, SyntaxError) /\ UNCHANGED json
       ELSE /\ json' = [json EXCEPT ![c] = <<input[c].json.value>>]
            /\ Goto(c, "parseManifestJson")
            /\ UNCHANGED result
    /\ UNCHANGED <<input, ns, details, ops>>

\* io.read(jsonPath) settles (lines 209-210).
ReadJson(c) == JsonRead(c, "readJson")

\* archive.getFile('manifest.json') settles (lines 187-188).
GetFileJson(c) == JsonRead(c, "getFileJson")

\* .then(parseManifestJson), lines 189 and 211.
ParseManifestJson(c) ==
    /\ pc[c] = "parseManifestJson"
    /\ Log(c, <<Op("parseManifestJson", <<>>, <<>>)>>)
    /\ LET r == parseManifestJson(json[c][1], addonPath(c))
       IN  IF r.ok
           THEN /\ details' = [details EXCEPT ![c] = <<r.val>>]
                /\ Goto(c, "details")
                /\ UNCHANGED result
           ELSE Reject(c, r.err) /\ UNCHANGED details
    /\ UNCHANGED <<input, ns, json>>

\* getDetails resolved: install's handler starts the action (lines 53-63).
InstallThen(c) ==
    /\ pc[c] = "details"
    /\ LET a == installAction(input[c].extension, input[c].dir, details[c][1])
       IN  Log(c, <<a>>) /\ Goto(c, a.op)
    /\ UNCHANGED <<input, ns, json, details, result>>

\* The action settles, and with it the promise install returned.
ActionDone(c, at) ==
    /\ pc[c] = at
    /\ result' = [result EXCEPT ![c] =
                    settle(input[c].fail = "action", details[c][1].id,
                           IoError(at, input[c].extension))]
    /\ Goto(c, "done")
    /\ UNCHANGED <<input, ns, json, details, ops>>

\* io.copy settles (line 57).
IoCopy(c) == ActionDone(c, "copy")

\* zip.unzip settles (line 59).
ZipUnzip(c) == ActionDone(c, "unzip")

\* io.copyDir settles (line 62).
IoCopyDir(c) == ActionDone(c, "copyDir")

Next ==
    \/ \E c \in Calls : Install(c)
    \/ \E c \in Calls : Stat(c)
    \/ \E c \in Calls : ExistsRdf(c)
    \/ \E c \in Calls : ExistsJson(c)
    \/ \E c \in Calls : ZipLoad(c)
    \/ \E c \in Calls : ReadRdf(c)
    \/ \E c \in Calls : GetFileRdf(c)
    \/ \E c \in Calls : ParseXml(c)
    \/ \E c \in Calls : ReadJson(c)
    \/ \E c \in Calls : GetFileJson(c)
    \/ \E c \in Calls : ParseManifestJson(c)
    \/ \E c \in Calls : InstallThen(c)
    \/ \E c \in Calls : IoCopy(c)
    \/ \E c \in Calls : ZipUnzip(c)
    \/ \E c \in Calls : IoCopyDir(c)

Spec == Init /\ [][Next]_vars

SpecConc == InitConc /\ [][Next]_vars

---------------------------------------------------------------------------
(* Vocabulary of the properties *)

ActionOps == {"copy", "unzip", "copyDir"}
ParserOps == {"parseInstallRdf", "parseManifestJson"}

\* The positions in the log of call c that hold an operation in S.
OpsIn(c, S) == {i \in DOMAIN ops[c] : ops[c][i].op \in S}

\* The operations in S that call c has made.
Made(c, S) == {ops[c][i] : i \in OpsIn(c, S)}

Settled(c) == pc[c] = "done"
HasDetails(c) == details[c] # <<>>
\* install's handler has run: the action has been started.
Acted(c) == HasDetails(c) /\ pc[c] # "details"

IsArchive(c) == input[c].kind = "file" /\ SliceLast4(input[c].extension) = <<".", "x", "p", "i">>
IsDirectory(c) == input[c].kind = "dir"

Stem(c) == input[c].dir \o <<"/">> \o details[c][1].id

\* The manifest the locator settles on, by the documented priority.
Chosen(c) ==
    IF input[c].hasRdf THEN "rdf" ELSE IF input[c].hasJson THEN "json" ELSE "none"

\* The manifest of call c has been read and handed to its parser.
LegacyParsed(c) ==
    /\ Chosen(c) = "rdf"
    /\ input[c].rdf.wellFormed
    /\ \E i \in DOMAIN ops[c] : ops[c][i].op = "parseInstallRdf"
    /\ pc[c] # "parseXml"

\* The description node the legacy parser reads, when the document has one
\* root, the root is <rdf>RDF and it holds an <rdf>Description.
HasDescription(c) ==
    /\ LegacyParsed(c)
    /\ Len(input[c].rdf.doc) = 1
    /\ ns[c].rdf # <<>>
    /\ input[c].rdf.doc[1].name = ns[c].rdf[1] \o <<"RDF">>
    /\ \E k \in DOMAIN input[c].rdf.doc[1].value.kids :
          input[c].rdf.doc[1].value.kids[k].name = ns[c].rdf[1] \o <<"Description">>

DescriptionOf(c) ==
    LET kids == input[c].rdf.doc[1].value.kids
        k == CHOOSE k \in DOMAIN kids : kids[k].name = ns[c].rdf[1] \o <<"Description">>
    IN  kids[k].value[1]

\* The texts of the children named <em>field of the description node.
FieldTexts(c, field) ==
    LET kids == DescriptionOf(c).kids
        hits == {k \in DOMAIN kids : kids[k].name = ns[c].em[1] \o <<field>>}
    IN  IF hits = {} THEN <<>> ELSE kids[CHOOSE k \in hits : TRUE].value

---------------------------------------------------------------------------
\* C1: for an install whose source is a packed .xpi archive and whose
\* descriptor resolved with id I, exactly one filesystem action is made: a
\* copy of the archive to <dir>/<I>.xpi when unpack is false, an unzip of the
\* archive into <dir>/<I> when unpack is true; copyDir is never used.
C1_ArchiveAction ==
    \A c \in Calls :
        (IsArchive(c) /\ Acted(c)) =>
            /\ Cardinality(OpsIn(c, ActionOps)) = 1
            /\ Made(c, ActionOps) =
                 IF details[c][1].unpack
                 THEN {Op("unzip", input[c].extension, Stem(c))}
                 ELSE {Op("copy", input[c].extension, Stem(c) \o <<".", "x", "p", "i">>)}

C1_Witness ==
    \E c \in Calls :
        /\ IsArchive(c) /\ Settled(c) /\ HasDetails(c)
        /\ details[c][1].unpack
        /\ result[c].state = "resolved"
        /\ Made(c, {"unzip"}) # {}

\* C2: for a source that stat reports as a directory, whatever its name and
\* whatever unpack is, install makes a recursive directory copy of the source
\* to <dir>/<id> and neither a file copy nor an unzip.
C2_DirectoryAction ==
    \A c \in Calls :
        (IsDirectory(c) /\ Acted(c)) =>
            Made(c, ActionOps) = {Op("copyDir", input[c].extension, Stem(c))}

\* C3: the promise install returns resolves only after the chosen action has
\* completed successfully, with the descriptor's id; when the action fails it
\* rejects with the action's own error and never resolves; the action is made
\* once.
C3_SettleAfterAction ==
    \A c \in Calls :
        /\ pc[c] \in ActionOps => result[c].state = "pending"
        /\ result[c].state = "resolved" =>
              /\ Settled(c) /\ HasDetails(c)
              /\ Cardinality(OpsIn(c, ActionOps)) = 1
              /\ input[c].fail # "action"
              /\ result[c].id = details[c][1].id
        /\ (Settled(c) /\ OpsIn(c, ActionOps) # {} /\ input[c].fail = "action") =>
              /\ Cardinality(OpsIn(c, ActionOps)) = 1
              /\ result[c].state = "rejected"
              /\ \E a \in Made(c, ActionOps) :
                    result[c].err = [name |-> "Error", msg |-> a.op, path |-> a.src]

C3_Witness ==
    \E c \in Calls :
        /\ Settled(c) /\ OpsIn(c, ActionOps) # {} /\ input[c].fail = "action"
        /\ result[c].state = "rejected"

\* The id text the chosen manifest carries is absent or empty, in a manifest
\* whose structure the parser got through: a legacy description node without
\* a non-empty <em>id, or a JSON object without a non-empty
\* applications.gecko.id.
NoLegacyId(c) ==
    /\ HasDescription(c)
    /\ FieldTexts(c, "id") = <<>> \/ FieldTexts(c, "id")[1] = <<>>

NoModernId(c) ==
    /\ json[c] # <<>>
    /\ pc[c] # "parseManifestJson"
    /\ ~json[c][1].isNull
    /\ \/ json[c][1].applications = <<>>
       \/ json[c][1].applications[1].gecko = <<>>
       \/ json[c][1].applications[1].gecko[1].id = <<>>
       \/ json[c][1].applications[1].gecko[1].id[1] = <<>>

ManifestReads(c, file) ==
    {i \in DOMAIN ops[c] :
        \/ ops[c][i] = Op("read", input[c].extension \o <<"/">> \o file, <<>>)
        \/ ops[c][i] = Op("getFile", file, <<>>)}

\* C5: manifest dispatch has legacy priority, for a directory and for an
\* archive alike: with install.rdf present the legacy parser is used and
\* manifest.json is never read, even when it is present too; with only
\* manifest.json present the modern parser is used; one parser is invoked per
\* successful locate.
C5_LegacyPriority ==
    \A c \in Calls :
        /\ input[c].hasRdf =>
              /\ ManifestReads(c, ManifestJsonName) = {}
              /\ Made(c, ParserOps) \subseteq {Op("parseInstallRdf", <<>>, <<>>)}
        /\ (~input[c].hasRdf /\ input[c].hasJson) =>
              /\ ManifestReads(c, InstallRdfName) = {}
              /\ Made(c, ParserOps) \subseteq {Op("parseManifestJson", <<>>, <<>>)}
        /\ HasDetails(c) =>
              /\ Cardinality(OpsIn(c, ParserOps)) = 1
              /\ Cardinality(ManifestReads(c, InstallRdfName)
                             \cup ManifestReads(c, ManifestJsonName)) = 1
              /\ Made(c, ParserOps) =
                    {Op(IF input[c].hasRdf THEN "parseInstallRdf" ELSE "parseManifestJson",
                        <<>>, <<>>)}

C5_Witness ==
    \E c \in Calls :
        /\ IsArchive(c)
        /\ input[c].hasRdf /\ input[c].hasJson
        /\ HasDetails(c)
        /\ Made(c, ParserOps) = {Op("parseInstallRdf", <<>>, <<>>)}

\* C6: when the source (directory or .xpi archive) holds neither install.rdf
\* nor manifest.json, locate fails with an AddonFormatError whose message
\* names the source, no parser is invoked, and install rejects without any
\* copy or unpack.
C6_NoManifest ==
    \A c \in Calls :
        (/\ Settled(c)
         /\ input[c].fail = "none"
         /\ IsDirectory(c) \/ IsArchive(c)
         /\ ~input[c].hasRdf /\ ~input[c].hasJson) =>
            /\ result[c].state = "rejected"
            /\ result[c].err.name = "AddonFormatError"
            /\ result[c].err.msg = "Couldn't find install.rdf or manifest.json in"
            /\ result[c].err.path = input[c].extension
            /\ OpsIn(c, ParserOps) = {}
            /\ OpsIn(c, ActionOps) = {}
            /\ ManifestReads(c, InstallRdfName) \cup ManifestReads(c, ManifestJsonName) = {}

C6_Witness ==
    \E c \in Calls :
        /\ Settled(c) /\ input[c].fail = "none" /\ IsArchive(c)
        /\ ~input[c].hasRdf /\ ~input[c].hasJson
        /\ result[c].state = "rejected"

\* The manifest of call c was read and is structurally invalid: XML that does
\* not parse, a document without exactly one top-level child, a document
\* without the <rdf>RDF / <rdf>Description node, or JSON that does not parse.
StructurallyInvalid(c) ==
    \/ /\ Chosen(c) = "rdf"
       /\ \E i \in DOMAIN ops[c] : ops[c][i].op = "parseInstallRdf"
       /\ pc[c] # "parseXml"
       /\ \/ ~input[c].rdf.wellFormed
          \/ Len(input[c].rdf.doc) # 1
          \/ ~HasDescription(c)
    \/ /\ Chosen(c) = "json"
       /\ input[c].fail # "read"
       /\ ManifestReads(c, ManifestJsonName) # {}
       /\ pc[c] \notin {"readJson", "getFileJson"}
       /\ ~input[c].json.valid

\* C7: every structurally invalid manifest is rejected with an
\* AddonFormatError that carries the offending path, and with no other kind
\* of error.
C7_MalformedIsAddonFormatError ==
    \A c \in Calls :
        StructurallyInvalid(c) =>
            /\ result[c].state = "rejected"
            /\ result[c].err.name = "AddonFormatError"
            /\ result[c].err.path = input[c].extension

\* The positions of the declarations of url among the attributes a.
Declaring(a, url) == {i \in DOMAIN a : a[i].value = url}

\* What the resolver is specified to return for url, from the first
\* declaration of url among the attributes a.
PrefixByFirstDeclaration(a, url) ==
    IF Declaring(a, url) = {} THEN <<>>
    ELSE LET f == CHOOSE i \in Declaring(a, url) : \A j \in Declaring(a, url) : i <= j
         IN  IF a[f].name = <<"xmlns">> THEN <<>>
             ELSE <<a[f].name[3], ":">>

\* C8: for a document with exactly one root child, the namespace resolver
\* returns "x:" when the first declaration of the URI on the root child is
\* xmlns:x, and the empty string when it is the default declaration xmlns or
\* when no declaration has the URI.
C8_NamespacePrefix ==
    \A c \in Calls :
        (LegacyParsed(c) /\ Len(input[c].rdf.doc) = 1) =>
            /\ ns[c].em = <<PrefixByFirstDeclaration(input[c].rdf.doc[1].value.attrs, EmUri)>>
            /\ ns[c].rdf = <<PrefixByFirstDeclaration(input[c].rdf.doc[1].value.attrs, RdfUri)>>

C8_Witness ==
    \E c \in Calls :
        /\ LegacyParsed(c) /\ Len(input[c].rdf.doc) = 1
        /\ Cardinality(Declaring(input[c].rdf.doc[1].value.attrs, EmUri)) = 2
        /\ input[c].rdf.doc[1].value.attrs[1].name = <<"xmlns", ":", "em">>
        /\ input[c].rdf.doc[1].value.attrs[2].name = <<"xmlns">>
        /\ ns[c].em = <<<<"em", ":">>>>

\* The spellings of "true" in any letter case.
TrueInAnyCase ==
    {<<a, b, h, d>> : a \in {"t", "T"}, b \in {"r", "R"}, h \in {"u", "U"}, d \in {"e", "E"}}

\* C9: the descriptor's unpack is a boolean: for a legacy manifest, true
\* exactly when the content of the first <em>unpack child is "true" in any
\* letter case, false for other content and when there is no such child; for
\* a modern manifest, false, so that an .xpi carrying only manifest.json is
\* copied packed and never unzipped.
C9_UnpackFlag ==
    \A c \in Calls :
        HasDetails(c) =>
            /\ details[c][1].unpack \in BOOLEAN
            /\ Chosen(c) = "rdf" =>
                  details[c][1].unpack =
                      (/\ FieldTexts(c, "unpack") # <<>>
                       /\ FieldTexts(c, "unpack")[1] \in TrueInAnyCase)
            /\ Chosen(c) = "json" =>
                  /\ details[c][1].unpack = FALSE
                  /\ IsArchive(c) => Made(c, ActionOps) \subseteq
                        {Op("copy", input[c].extension, Stem(c) \o <<".", "x", "p", "i">>)}

C9_Witness ==
    \E c \in Calls :
        /\ HasDetails(c) /\ Chosen(c) = "rdf"
        /\ Len(FieldTexts(c, "unpack")) = 2
        /\ FieldTexts(c, "unpack")[1] = <<"T", "R", "U", "E">>
        /\ FieldTexts(c, "unpack")[2] = <<"f", "a", "l", "s", "e">>
        /\ details[c][1].unpack = TRUE

\* The id the source of call c declares (<<>>: none), read from its manifest.
OwnId(c) ==
    IF input[c].hasRdf
    THEN LET kids == input[c].rdf.doc[1].value.kids[1].value[1].kids
             hits == {k \in DOMAIN kids : kids[k].name = <<"em", ":", "id">>}
         IN  IF hits = {} THEN <<>> ELSE kids[CHOOSE k \in hits : TRUE].value[1]
    ELSE IF input[c].hasJson /\ input[c].json.value.applications[1].gecko[1].id # <<>>
    THEN input[c].json.value.applications[1].gecko[1].id[1]
    ELSE <<>>

\* The paths that belong to call c.
OwnPaths(c) ==
    {<<>>, input[c].extension,
     input[c].extension \o <<"/">> \o InstallRdfName,
     input[c].extension \o <<"/">> \o ManifestJsonName,
     InstallRdfName, ManifestJsonName,
     input[c].dir \o <<"/">> \o OwnId(c),
     input[c].dir \o <<"/">> \o OwnId(c) \o <<".", "x", "p", "i">>}

\* C10: concurrent install calls share no state: under every interleaving of
\* their steps each call resolves exactly when its own source has an id and
\* its own action succeeds, with its own source's id, after an action from
\* its own source to its own destination stem; the path in its error and
\* every path it touches are its own.
C10_CallsIndependent ==
    \A c \in Calls :
        /\ \A i \in DOMAIN ops[c] : ops[c][i].src \in OwnPaths(c) /\ ops[c][i].dst \in OwnPaths(c)
        /\ Settled(c) =>
              /\ result[c].state = "resolved" <=> (OwnId(c) # <<>> /\ input[c].fail = "none")
              /\ result[c].state = "resolved" =>
                    /\ result[c].id = OwnId(c)
                    /\ \E a \in Made(c, ActionOps) :
                          /\ a.src = input[c].extension
                          /\ a.dst \in {input[c].dir \o <<"/">> \o OwnId(c),
                                        input[c].dir \o <<"/">> \o OwnId(c) \o <<".", "x", "p", "i">>}
              /\ result[c].state = "rejected" => result[c].err.path \in {<<>>, input[c].extension}
              /\ (result[c].state = "rejected" /\ input[c].fail = "none") =>
                    result[c].err.path = input[c].extension

C10_Witness ==
    \E c, d \in Calls :
        /\ c # d
        /\ Settled(c) /\ Settled(d)
        /\ result[c].state = "resolved" /\ result[d].state = "resolved"
        /\ result[c].id # result[d].id
        /\ input[c].extension # input[d].extension

=============================================================================
